---- MODULE Spec2Model ----
(***************************************************************************)
(* Model of main.c of based-connect: the command-line front end that       *)
(* opens an RFCOMM socket, sets its timeouts, verifies the options,        *)
(* connects, runs init_connection and then one do_set_* per option.        *)
(*                                                                         *)
(* C strings are sequences of one-character strings.  The library calls    *)
(* (socket, setsockopt, connect, close) and the protocol core of based.h   *)
(* (init_connection and the setters) are external: each call is logged in  *)
(* the trace                                                               *)
(* with its argument and its result, and the result is chosen by the       *)
(* environment.                                                            *)
(***************************************************************************)
EXTENDS Integers, Sequences, FiniteSets, TLC

VARIABLES argv, nonopts, pc, sock, optind, status, ret, trace, stderr

vars == <<argv, nonopts, pc, sock, optind, status, ret, trace, stderr>>

(* ------------------------------ bounds -------------------------------- *)

\* Longest command line, in options.
MaxOpts == 2

(* ------------------- based.h (declarations only) ---------------------- *)

MAX_NAME_LEN == 31

AO_NEVER == 0
AO_5_MIN == 5
AO_20_MIN == 20
AO_40_MIN == 40
AO_60_MIN == 60
AO_180_MIN == 180

AutoOff == {AO_NEVER, AO_5_MIN, AO_20_MIN, AO_40_MIN, AO_60_MIN, AO_180_MIN}

NoiseCancelling == {"NC_HIGH", "NC_LOW", "NC_OFF"}

PromptLanguage ==
    {"PL_OFF", "PL_EN", "PL_FR", "PL_IT", "PL_DE", "PL_ES",
     "PL_PT", "PL_ZH", "PL_KO", "PL_NL", "PL_JA", "PL_SV"}

\* Statuses the core returns: 0 is success, negative a failed system call,
\* positive a protocol failure.
CoreStatus == {-1, 0, 1, 2}

(* ----------------------------- C strings ------------------------------ *)

S_never == <<"n", "e", "v", "e", "r">>
S_high  == <<"h", "i", "g", "h">>
S_low   == <<"l", "o", "w">>
S_off   == <<"o", "f", "f">>
S_loud  == <<"l", "o", "u", "d">>
S_0     == <<"0">>
S_5     == <<"5">>
S_20    == <<"2", "0">>
S_40    == <<"4", "0">>
S_50    == <<"5", "0">>
S_60    == <<"6", "0">>
S_180   == <<"1", "8", "0">>
S_en    == <<"e", "n">>
S_fr    == <<"f", "r">>
S_it    == <<"i", "t">>
S_de    == <<"d", "e">>
S_es    == <<"e", "s">>
S_pt    == <<"p", "t">>
S_zh    == <<"z", "h">>
S_ko    == <<"k", "o">>
S_nl    == <<"n", "l">>
S_ja    == <<"j", "a">>
S_sv    == <<"s", "v">>
S_xx    == <<"x", "x">>

strlen(s) == Len(s)

\* strcmp(a, b) == 0
streq(a, b) == a = b

\* The C string left in a zeroed buffer of n+1 bytes by strncpy(buf, s, n).
strncpy(s, n) == IF Len(s) <= n THEN s ELSE SubSeq(s, 1, n)

Digits == {"0", "1", "2", "3", "4", "5", "6", "7", "8", "9"}

DigitVal(c) ==
    CASE c = "0" -> 0 [] c = "1" -> 1 [] c = "2" -> 2 [] c = "3" -> 3
      [] c = "4" -> 4 [] c = "5" -> 5 [] c = "6" -> 6 [] c = "7" -> 7
      [] c = "8" -> 8 [] c = "9" -> 9

RECURSIVE atoiFrom(_, _, _)
atoiFrom(s, i, acc) ==
    IF i > Len(s) \/ s[i] \notin Digits
    THEN acc
    ELSE atoiFrom(s, i + 1, acc * 10 + DigitVal(s[i]))

\* atoi: optional sign, then the leading decimal digits; 0 when there are none.
atoi(s) ==
    IF Len(s) > 0 /\ s[1] = "-" THEN 0 - atoiFrom(s, 2, 0)
    ELSE IF Len(s) > 0 /\ s[1] = "+" THEN atoiFrom(s, 2, 0)
    ELSE atoiFrom(s, 1, 0)

(* ------------------------- external calls ----------------------------- *)

\* One logged call: the function, its argument and what it returned.
Ev(fn, arg, r) == [fn |-> fn, arg |-> arg, ret |-> r]

\* What a do_set_* function hands back to main: its return value, the core
\* calls it made and what it wrote to stderr.
Outcome(st, calls, err) == [status |-> st, calls |-> calls, err |-> err]

send_timeout == 5
recieve_timeout == 1

\* socket(): a descriptor, or -1.
SocketResults == {-1, 3}

\* setsockopt() on descriptor fd: fails on an invalid descriptor.
SetsockoptResults(fd) == IF fd < 0 THEN {-1} ELSE {0, -1}

ConnectResults == {0, -1}

(* ----------------------------- do_set_* ------------------------------- *)

(* Faulty variants of the definitions below carry a suffix after the name  *)
(* of the definition they vary; each is the slip named in its comment.     *)

\* r is the status the core returns if it is called.
do_set_name(arg, r) ==
    IF strlen(arg) > MAX_NAME_LEN
    THEN Outcome(1, <<>>, <<"Name exceeds character maximum. Truncating.">>)
    ELSE Outcome(r, <<Ev("set_name", strncpy(arg, MAX_NAME_LEN), r)>>, <<>>)

\* Variant: the else branch prints the message but does not return.
do_set_noise_cancelling_NoReturn(arg, r) ==
    IF streq(arg, S_high) THEN Outcome(r, <<Ev("set_noise_cancelling", "NC_HIGH", r)>>, <<>>)
    ELSE IF streq(arg, S_low) THEN Outcome(r, <<Ev("set_noise_cancelling", "NC_LOW", r)>>, <<>>)
    ELSE IF streq(arg, S_off) THEN Outcome(r, <<Ev("set_noise_cancelling", "NC_OFF", r)>>, <<>>)
    ELSE Outcome(r, <<Ev("set_noise_cancelling", "uninitialized", r)>>,
                 <<"Invalid noise cancelling argument">>)

\* The comparisons read the global optarg, which main passes as arg.
do_set_noise_cancelling(arg, r) ==
    IF streq(arg, S_high) THEN Outcome(r, <<Ev("set_noise_cancelling", "NC_HIGH", r)>>, <<>>)
    ELSE IF streq(arg, S_low) THEN Outcome(r, <<Ev("set_noise_cancelling", "NC_LOW", r)>>, <<>>)
    ELSE IF streq(arg, S_off) THEN Outcome(r, <<Ev("set_noise_cancelling", "NC_OFF", r)>>, <<>>)
    ELSE Outcome(1, <<>>, <<"Invalid noise cancelling argument">>)

\* The switch on atoi(arg) has no break after "ao = parsed": every case label
\* runs on into default, so the strcmp with "never" decides alone.
do_set_auto_off(arg, r) ==
    LET parsed == atoi(arg)
        \* default: entered with ao as the case labels left it
        Default(ao) ==
            IF streq(arg, S_never)
            THEN Outcome(r, <<Ev("set_auto_off", AO_NEVER, r)>>, <<>>)
            ELSE Outcome(1, <<>>, <<"Invalid auto-off argument">>)
    IN  IF parsed \in AutoOff
        THEN Default(parsed)
        ELSE Default("uninitialized")

PromptLanguageOf(arg) ==
    CASE streq(arg, S_off) -> "PL_OFF"
      [] streq(arg, S_en) -> "PL_EN"
      [] streq(arg, S_fr) -> "PL_FR"
      [] streq(arg, S_it) -> "PL_IT"
      [] streq(arg, S_de) -> "PL_DE"
      [] streq(arg, S_es) -> "PL_ES"
      [] streq(arg, S_pt) -> "PL_PT"
      [] streq(arg, S_zh) -> "PL_ZH"
      [] streq(arg, S_ko) -> "PL_KO"
      [] streq(arg, S_nl) -> "PL_NL"
      [] streq(arg, S_ja) -> "PL_JA"
      [] streq(arg, S_sv) -> "PL_SV"
      [] OTHER -> "invalid"

\* Variant: the else branch prints the message but does not return.
do_set_prompt_language_NoReturn(arg, r) ==
    LET pl == PromptLanguageOf(arg)
    IN  IF pl = "invalid"
        THEN Outcome(r, <<Ev("set_prompt_language", "uninitialized", r)>>,
                     <<"Invalid prompt language argument">>)
        ELSE Outcome(r, <<Ev("set_prompt_language", pl, r)>>, <<>>)

do_set_prompt_language(arg, r) ==
    LET pl == PromptLanguageOf(arg)
    IN  IF pl = "invalid"
        THEN Outcome(1, <<>>, <<"Invalid prompt language argument">>)
        ELSE Outcome(r, <<Ev("set_prompt_language", pl, r)>>, <<>>)

(* ------------------------------ getopt -------------------------------- *)

\* argv is the sequence of options getopt_long finds, each with its letter
\* ("h", "n", "c", "o", "l", or "?" for an unknown option or a missing
\* argument) and its argument; nonopts is the number of non-option words,
\* which getopt_long moves behind the options.  optind counts options here.
EOF == "EOF"

getopt_long(av, oi) ==
    IF oi > Len(av)
    THEN [opt |-> EOF, optarg |-> <<>>, optind |-> oi]
    ELSE [opt |-> av[oi].opt, optarg |-> av[oi].arg, optind |-> oi + 1]

\* argc - 1 != optind after the first pass: not exactly one address word.
WrongAddressCount(n) == n # 1

(* ------------------------------ inputs -------------------------------- *)

Opt(o, a) == [opt |-> o, arg |-> a]

NameOfLen(n) == [i \in 1..n |-> IF i % 2 = 1 THEN "a" ELSE "b"]

NameArgs == {NameOfLen(1), NameOfLen(MAX_NAME_LEN), NameOfLen(MAX_NAME_LEN + 1)}

NoiseCancellingArgs == {S_high, S_low, S_off, S_loud}

AutoOffArgs == {S_never, S_5, S_20, S_40, S_60, S_180, S_50, S_0}

PromptLanguageArgs ==
    {S_off, S_en, S_fr, S_it, S_de, S_es, S_pt, S_zh, S_ko, S_nl, S_ja, S_sv, S_xx}

Options ==
    {Opt("h", <<>>), Opt("?", <<>>)}
        \cup {Opt("n", a) : a \in NameArgs}
        \cup {Opt("c", a) : a \in NoiseCancellingArgs}
        \cup {Opt("o", a) : a \in AutoOffArgs}
        \cup {Opt("l", a) : a \in PromptLanguageArgs}

CommandLines == UNION {[1..k -> Options] : k \in 0..MaxOpts}

(* ------------------------------- main --------------------------------- *)

Init ==
    /\ argv \in CommandLines
    /\ nonopts \in 0..2
    /\ pc = "socket"
    /\ sock = -1
    /\ optind = 1
    /\ status = 0
    /\ ret = 0
    /\ trace = <<>>
    /\ stderr = <<>>

\* return v from main
Return(v) == pc' = "exit" /\ ret' = v

\* The exit status of the process whose main returned v: its low 8 bits.
ExitStatus(v) == v % 256

\* Variant: the comparison the wrong way round.
SetsockoptFailed_WrongSign(r) == r > 0

SetsockoptFailed(r) == r < 0

\* Variant: if (status < 0) break;
ShouldBreak_OnlyNegative(st) == st < 0

\* if (status) break;
ShouldBreak(st) == st # 0

Socket ==
    /\ pc = "socket"
    /\ \E fd \in SocketResults :
        /\ sock' = fd
        /\ trace' = Append(trace, Ev("socket", "AF_BLUETOOTH", fd))
    /\ pc' = "sndtimeo"
    /\ UNCHANGED <<argv, nonopts, optind, status, ret, stderr>>

SetSendTimeout ==
    /\ pc = "sndtimeo"
    /\ \E r \in SetsockoptResults(sock) :
        /\ trace' = Append(trace, Ev("setsockopt", <<"SO_SNDTIMEO", send_timeout>>, r))
        /\ IF SetsockoptFailed(r)
           THEN /\ stderr' = Append(stderr, "Could not set socket send timeout")
                /\ Return(1)
           ELSE /\ pc' = "rcvtimeo"
                /\ UNCHANGED <<ret, stderr>>
    /\ UNCHANGED <<argv, nonopts, sock, optind, status>>

SetRecieveTimeout ==
    /\ pc = "rcvtimeo"
    /\ \E r \in SetsockoptResults(sock) :
        /\ trace' = Append(trace, Ev("setsockopt", <<"SO_RCVTIMEO", recieve_timeout>>, r))
        /\ IF SetsockoptFailed(r)
           THEN /\ stderr' = Append(stderr, "Could not set socket recieve timeout")
                /\ Return(1)
           ELSE /\ pc' = "verify"
                /\ UNCHANGED <<ret, stderr>>
    /\ UNCHANGED <<argv, nonopts, sock, optind, status>>

\* One iteration of the first getopt_long loop.
VerifyOptions ==
    /\ pc = "verify"
    /\ LET g == getopt_long(argv, optind)
       IN  /\ optind' = g.optind
           /\ CASE g.opt = EOF -> pc' = "address" /\ UNCHANGED ret
                [] g.opt = "h" -> Return(0)
                [] g.opt = "?" -> Return(1)
                [] OTHER -> UNCHANGED <<pc, ret>>
    /\ UNCHANGED <<argv, nonopts, sock, status, trace, stderr>>

CheckAddress ==
    /\ pc = "address"
    /\ IF WrongAddressCount(nonopts)
       THEN /\ stderr' = Append(stderr,
                    IF nonopts < 1 THEN "An address argument must be given."
                                   ELSE "Only one address argument may be given.")
            /\ Return(1)
       ELSE /\ pc' = "connect"
            /\ UNCHANGED <<ret, stderr>>
    /\ UNCHANGED <<argv, nonopts, sock, optind, status, trace>>

Connect ==
    /\ pc = "connect"
    /\ \E r \in ConnectResults :
        /\ trace' = Append(trace, Ev("connect", sock, r))
        /\ IF r # 0
           THEN /\ stderr' = Append(stderr, "Could not connect to Bluetooth device")
                /\ Return(1)
           ELSE /\ pc' = "init"
                /\ UNCHANGED <<ret, stderr>>
    /\ UNCHANGED <<argv, nonopts, sock, optind, status>>

\* Variant: init_connection(sock) is called and its result dropped.
InitConnection_StatusDropped ==
    /\ pc = "init"
    /\ \E r \in CoreStatus :
        /\ status' = 0
        /\ trace' = Append(trace, Ev("init_connection", sock, r))
    /\ optind' = 1
    /\ pc' = "loop"
    /\ UNCHANGED <<argv, nonopts, sock, ret, stderr>>

\* Variant: optind is not set back to 1 for the second pass.
InitConnection_NoRewind ==
    /\ pc = "init"
    /\ \E r \in CoreStatus :
        /\ status' = r
        /\ trace' = Append(trace, Ev("init_connection", sock, r))
    /\ pc' = "loop"
    /\ UNCHANGED <<argv, nonopts, sock, optind, ret, stderr>>

\* status = init_connection(sock); opt_index = 0; optind = 1;
InitConnection ==
    /\ pc = "init"
    /\ \E r \in CoreStatus :
        /\ status' = r
        /\ trace' = Append(trace, Ev("init_connection", sock, r))
    /\ optind' = 1
    /\ pc' = "loop"
    /\ UNCHANGED <<argv, nonopts, sock, ret, stderr>>

DoSetName(opt) ==
    CASE opt = "n" -> "do_set_name"
      [] opt = "c" -> "do_set_noise_cancelling"
      [] opt = "o" -> "do_set_auto_off"
      [] opt = "l" -> "do_set_prompt_language"

\* The switch of the second loop.
Dispatch(opt, optarg, r) ==
    CASE opt = "n" -> do_set_name(optarg, r)
      [] opt = "c" -> do_set_noise_cancelling(optarg, r)
      [] opt = "o" -> do_set_auto_off(optarg, r)
      [] opt = "l" -> do_set_prompt_language(optarg, r)

\* One iteration of the second getopt_long loop.
SettingLoop ==
    /\ pc = "loop"
    /\ LET g == getopt_long(argv, optind)
       IN  /\ optind' = g.optind
           /\ IF g.opt = EOF \/ ShouldBreak(status)
              THEN /\ pc' = "finish"
                   /\ UNCHANGED <<status, trace, stderr>>
              ELSE IF g.opt \notin {"n", "c", "o", "l"}
              THEN /\ pc' = "aborted"
                   /\ UNCHANGED <<status, trace, stderr>>
              ELSE \E r \in CoreStatus :
                    LET res == Dispatch(g.opt, g.optarg, r)
                    IN  /\ status' = res.status
                        /\ trace' = (trace \o res.calls)
                                \o <<Ev(DoSetName(g.opt), g.optarg, res.status)>>
                        /\ stderr' = stderr \o res.err
                        /\ pc' = "loop"
    /\ UNCHANGED <<argv, nonopts, sock, ret>>

\* Variant: return status < 0;
Finish_ReturnsNegativeOnly ==
    /\ pc = "finish"
    /\ stderr' = IF status < 0
                 THEN Append(stderr, "Error trying to change setting")
                 ELSE stderr
    /\ trace' = Append(trace, Ev("close", sock, 0))
    /\ Return(IF status < 0 THEN 1 ELSE 0)
    /\ UNCHANGED <<argv, nonopts, sock, optind, status>>

\* if (status < 0) perror(...); close(sock); return status;
Finish ==
    /\ pc = "finish"
    /\ stderr' = IF status < 0
                 THEN Append(stderr, "Error trying to change setting")
                 ELSE stderr
    /\ trace' = Append(trace, Ev("close", sock, 0))
    /\ Return(status)
    /\ UNCHANGED <<argv, nonopts, sock, optind, status>>

Next ==
    \/ Socket
    \/ SetSendTimeout
    \/ SetRecieveTimeout
    \/ VerifyOptions
    \/ CheckAddress
    \/ Connect
    \/ InitConnection
    \/ SettingLoop
    \/ Finish

Spec == Init /\ [][Next]_vars

(* --------------------------- observations ----------------------------- *)

CoreSetters == {"set_name", "set_noise_cancelling", "set_auto_off", "set_prompt_language"}

DoSetFns == {"do_set_name", "do_set_noise_cancelling", "do_set_auto_off",
             "do_set_prompt_language"}

ProtocolOps == CoreSetters \cup {"init_connection"}

Calls(F) == {i \in DOMAIN trace : trace[i].fn \in F}

Exited == pc = "exit"

Connected == \E i \in Calls({"connect"}) : trace[i].ret = 0

InitSucceeded == \E i \in Calls({"init_connection"}) : trace[i].ret = 0

\* The core setter calls, in the order they were made.
Issued == SelectSeq(trace, LAMBDA e : e.fn \in CoreSetters)

\* The do_set_* returns, in the order they were made.
Returned == SelectSeq(trace, LAMBDA e : e.fn \in DoSetFns)

SetterOf(opt) ==
    CASE opt = "n" -> "set_name"
      [] opt = "c" -> "set_noise_cancelling"
      [] opt = "o" -> "set_auto_off"
      [] opt = "l" -> "set_prompt_language"
      [] OTHER -> "none"

\* The arguments each enumerated option documents (usage, and the
\* enumerations of based.h).
ValidArgs(fn) ==
    CASE fn = "do_set_noise_cancelling" -> {S_high, S_low, S_off}
      [] fn = "do_set_auto_off" -> {S_never, S_5, S_20, S_40, S_60, S_180}
      [] fn = "do_set_prompt_language" -> PromptLanguageArgs \ {S_xx}

EnumDoSetFns == DoSetFns \ {"do_set_name"}

AutoOffMember(arg) ==
    CASE arg = S_never -> AO_NEVER
      [] arg = S_5 -> AO_5_MIN
      [] arg = S_20 -> AO_20_MIN
      [] arg = S_40 -> AO_40_MIN
      [] arg = S_60 -> AO_60_MIN
      [] arg = S_180 -> AO_180_MIN

(* ------------------------------ claims -------------------------------- *)

\* C1: once a do_set_* operation has returned a non-zero status, no core
\* setter is invoked for any later option of the invocation.
C1_AbortOnFirstError ==
    \A i, j \in DOMAIN trace :
        (i < j /\ trace[i].fn \in DoSetFns /\ trace[i].ret # 0)
            => trace[j].fn \notin CoreSetters

\* "-c high -o never" with a failing first command: one setter, then exit.
C1_Witness ==
    /\ Exited
    /\ argv = <<Opt("c", S_high), Opt("o", S_never)>>
    /\ Len(Issued) = 1
    /\ Issued[1].fn = "set_noise_cancelling" /\ Issued[1].ret # 0

\* C2: init_connection is invoked exactly once per invocation that connects,
\* never otherwise, before any core setter, and a core setter is invoked only
\* after an init_connection that returned 0.
C2_InitOnceAndFirst ==
    /\ Cardinality(Calls({"init_connection"})) <= 1
    /\ \A i \in Calls({"init_connection"}) :
            \E c \in Calls({"connect"}) : c < i /\ trace[c].ret = 0
    /\ (Connected /\ pc \in {"loop", "finish", "exit"})
            => Cardinality(Calls({"init_connection"})) = 1
    /\ \A j \in Calls(CoreSetters) :
            \E i \in Calls({"init_connection"}) : i < j /\ trace[i].ret = 0
    /\ (\E i \in Calls({"init_connection"}) : trace[i].ret # 0)
            => Calls(CoreSetters) = {}

C2_Witness ==
    /\ Exited
    /\ InitSucceeded
    /\ Len(Issued) = 2

\* C3: on every path by which the program exits after creating the socket,
\* close(sock) has been performed.
C3_ClosedOnEveryExit ==
    (Exited /\ sock >= 0) => \E i \in Calls({"close"}) : trace[i].arg = sock

\* C4: a name longer than MAX_NAME_LEN is truncated, not rejected: set_name
\* gets its first MAX_NAME_LEN characters and the caller is told; a shorter
\* name is passed unchanged; do_set_name returns set_name's status.
C4_NameTruncated ==
    \A i \in Calls({"do_set_name"}) :
        /\ i > 1
        /\ trace[i - 1].fn = "set_name"
        /\ trace[i - 1].arg = SubSeq(trace[i].arg, 1,
                IF Len(trace[i].arg) > MAX_NAME_LEN THEN MAX_NAME_LEN
                                                    ELSE Len(trace[i].arg))
        /\ trace[i].ret = trace[i - 1].ret
        /\ Len(trace[i].arg) > MAX_NAME_LEN
                => "Name exceeds character maximum. Truncating." \in
                        {stderr[k] : k \in DOMAIN stderr}

\* C5: every member of {never, 5, 20, 40, 60, 180} is accepted by
\* do_set_auto_off: no validation error, set_auto_off is invoked with the
\* corresponding AO_* member and its status is returned.
C5_AutoOffMembersAccepted ==
    \A i \in Calls({"do_set_auto_off"}) :
        trace[i].arg \in ValidArgs("do_set_auto_off") =>
            /\ i > 1
            /\ trace[i - 1].fn = "set_auto_off"
            /\ trace[i - 1].arg = AutoOffMember(trace[i].arg)
            /\ trace[i].ret = trace[i - 1].ret
            /\ "Invalid auto-off argument" \notin {stderr[k] : k \in DOMAIN stderr}

InvalidSetting(o) ==
    /\ o.opt \in {"c", "o", "l"}
    /\ o.arg \notin ValidArgs(DoSetName(o.opt))

\* C6 (as claimed): if any requested setting has an invalid argument, no
\* protocol operation (init_connection or a setter) is performed.
C6_ValidatedBeforeCore ==
    (\E k \in DOMAIN argv : InvalidSetting(argv[k])) => Calls(ProtocolOps) = {}

\* C6 (amended): a setting's argument is validated when its own option is
\* processed, after init_connection has succeeded: an argument outside the
\* enumeration makes that do_set_* return 1 without invoking its setter, and
\* no protocol operation is performed afterwards.
C6_ValidatedAtOwnOption ==
    \A i \in Calls(EnumDoSetFns) :
        trace[i].arg \notin ValidArgs(trace[i].fn) =>
            /\ trace[i].ret = 1
            /\ trace[i - 1].fn \notin CoreSetters
            /\ \E j \in Calls({"init_connection"}) : j < i /\ trace[j].ret = 0
            /\ \A j \in Calls(ProtocolOps) : j < i

\* "-c high -l xx": the first setting is issued before the second is refused.
C6_Witness ==
    /\ Exited
    /\ argv = <<Opt("c", S_high), Opt("l", S_xx)>>
    /\ Len(Issued) = 1 /\ Issued[1].ret = 0
    /\ Len(Returned) = 2 /\ Returned[2].ret = 1

\* C7: the core setters only ever receive members of their enumerations, and
\* an argument outside the enumeration makes do_set_* return 1 without a
\* core call.
C7_EnumValuesOnly ==
    /\ \A i \in Calls({"set_noise_cancelling"}) : trace[i].arg \in NoiseCancelling
    /\ \A i \in Calls({"set_prompt_language"}) : trace[i].arg \in PromptLanguage
    /\ \A i \in Calls({"set_auto_off"}) : trace[i].arg \in AutoOff
    /\ \A i \in Calls(EnumDoSetFns) :
            trace[i].arg \notin ValidArgs(trace[i].fn) =>
                /\ trace[i].ret = 1
                /\ trace[i - 1].fn \notin CoreSetters

C7_Witness ==
    /\ Exited
    /\ Len(Issued) = 1 /\ Issued[1].fn = "set_auto_off"
    /\ Len(Returned) = 2
    /\ Returned[2].fn = "do_set_noise_cancelling" /\ Returned[2].arg = S_loud

\* C8: the core setter calls are, in order, those of a prefix of the options
\* of the command line; when init_connection and every do_set_* succeeded,
\* the prefix is the whole command line.
C8_InOrder ==
    /\ Len(Issued) <= Len(argv)
    /\ \A k \in DOMAIN Issued : Issued[k].fn = SetterOf(argv[k].opt)
    /\ \A k \in DOMAIN Issued :
            Issued[k].fn = "set_name" => Issued[k].arg = argv[k].arg
    /\ (/\ Exited
        /\ InitSucceeded
        /\ \A k \in DOMAIN Returned : Returned[k].ret = 0)
            => Len(Issued) = Len(argv)

C8_Witness ==
    /\ Exited
    /\ Len(argv) = 2 /\ argv[1].opt # argv[2].opt
    /\ Len(Issued) = 2
    /\ ret = 0

TimeoutSet(i, name, seconds) ==
    /\ trace[i].fn = "setsockopt"
    /\ trace[i].arg = <<name, seconds>>
    /\ trace[i].ret = 0

\* C10: connect, init_connection and the setters are attempted only after
\* the 5 s send and the 1 s receive timeout were set successfully; when a
\* setsockopt fails (as it does after a failed socket()), main returns 1 and
\* neither connects nor issues a protocol operation.
C10_TimeoutsFirst ==
    /\ \A i \in Calls(ProtocolOps \cup {"connect"}) :
            /\ \E j \in 1..(i - 1) : TimeoutSet(j, "SO_SNDTIMEO", 5)
            /\ \E j \in 1..(i - 1) : TimeoutSet(j, "SO_RCVTIMEO", 1)
    /\ (\E i \in Calls({"setsockopt"}) : trace[i].ret < 0)
            => (Exited /\ ExitStatus(ret) = 1 /\ Calls(ProtocolOps \cup {"connect"}) = {})
    /\ (Exited /\ sock < 0) => (ExitStatus(ret) = 1 /\ Calls(ProtocolOps \cup {"connect"}) = {})

\* The receive timeout cannot be set on a good socket.
C10_Witness ==
    /\ Exited
    /\ sock >= 0
    /\ Len(trace) = 3
    /\ TimeoutSet(2, "SO_SNDTIMEO", 5)
    /\ trace[3].fn = "setsockopt" /\ trace[3].ret < 0

====
